---------------------------- MODULE Spec2Model ----------------------------
(***************************************************************************)
(* Keyword Rank Dashboard (src/app.py).                                    *)
(*                                                                         *)
(* The script loads a wide table (one row per keyword, one rank column per *)
(* date header), selects the rank columns inside a date range, takes the   *)
(* last of them as "Latest Rank" and the first column matching the         *)
(* comparison date as "Previous Rank", classifies each keyword into a      *)
(* bucket, keeps the bucketed keywords and labels their movement.          *)
(*                                                                         *)
(* Two specifications:                                                     *)
(*   Spec    one run of the script over a table, step by step;             *)
(*   SpecFn  the two pure classifiers applied to drawn rank cells.         *)
(***************************************************************************)
EXTENDS Integers, Sequences, FiniteSets, TLC

VARIABLES
    columns,          \* rank_data.columns: the headers, in table order
    rank_data,        \* keyword -> the row's cells, one per column
    pc,               \* position of the run in the script
    status,           \* what the run reported (st.warning / st.error)
    start_date,       \* lower bound of the selected range
    end_date,         \* upper bound of the selected range
    comparison_date,  \* the "Comparison Start Date" widget
    filtered_cols,    \* indexes of the columns inside the range, table order
    latest_rank,      \* df_filtered["Latest Rank"]
    previous_rank,    \* df_filtered["Previous Rank"]
    bucket,           \* df_filtered["Bucket"], before the notna filter
    df_filtered,      \* the keywords (rows) left in df_filtered
    keyword_selected, \* the keyword of the trend chart
    movement,         \* df_filtered["Movement"]
    fn_pc,            \* SpecFn: which classifier has been applied
    fn_latest,        \* SpecFn: the drawn latest cell
    fn_previous,      \* SpecFn: the drawn previous cell
    fn_bucket,        \* SpecFn: result of classify_bucket
    fn_movement       \* SpecFn: result of detect_movement

runVars == <<columns, rank_data, pc, status, start_date, end_date,
             comparison_date, filtered_cols, latest_rank, previous_rank,
             bucket, df_filtered, keyword_selected, movement>>
fnVars == <<fn_pc, fn_latest, fn_previous, fn_bucket, fn_movement>>
vars == <<runVars, fnVars>>

---------------------------------------------------------------------------
(* Bounds *)

\* most rank columns of a table
MaxCols == 2
\* calendar days are numbered 1..MaxDate
MaxDate == 2
\* integer rank cells of SpecFn range over -MaxRank..MaxRank
MaxRank == 12

Dates == 1..MaxDate

---------------------------------------------------------------------------
(* Cells *)

\* What pandas hands to int() and str() for one cell of the sheet: a number,
\* an empty cell (NaN), the "-" placeholder, or some other text.
IntCell(n) == [kind |-> "int", val |-> n, text |-> ""]
NaNCell == [kind |-> "nan", val |-> 0, text |-> ""]
DashCell == [kind |-> "text", val |-> 0, text |-> "-"]
TextCell == [kind |-> "text", val |-> 0, text |-> "N/R"]

AbsentCells == {NaNCell, DashCell, TextCell}
FnCells == {IntCell(n) : n \in (0 - MaxRank)..MaxRank} \cup AbsentCells
\* the cells of the tables of Spec: two ranks inside the buckets, one
\* outside them, and the placeholder
TableCells == {IntCell(2), IntCell(7), IntCell(11), DashCell}

\* int(x) raises for NaN and for non-numeric text
IntRaises(c) == c.kind # "int"
int(c) == c.val

Digit == <<"0", "1", "2", "3", "4", "5", "6", "7", "8", "9">>
RECURSIVE NatStr(_)
NatStr(n) == IF n < 10 THEN Digit[n + 1]
             ELSE NatStr(n \div 10) \o Digit[(n % 10) + 1]
\* str(x)
str(c) == CASE c.kind = "int" -> IF c.val < 0 THEN "-" \o NatStr(0 - c.val)
                                 ELSE NatStr(c.val)
            [] c.kind = "nan" -> "nan"
            [] OTHER -> c.text

---------------------------------------------------------------------------
(* Pure classifiers *)

None == "None"

\* classify_bucket with the first threshold tested strictly
classify_bucket_strict(rank) ==
    IF IntRaises(rank) THEN None
    ELSE LET r == int(rank) IN
         IF r < 3 THEN "Top 3"
         ELSE IF r <= 5 THEN "Top 5"
         ELSE IF r <= 10 THEN "Top 10"
         ELSE None

classify_bucket(rank) ==
    IF IntRaises(rank) THEN None
    ELSE LET r == int(rank) IN
         IF r <= 3 THEN "Top 3"
         ELSE IF r <= 5 THEN "Top 5"
         ELSE IF r <= 10 THEN "Top 10"
         ELSE None

\* detect_movement with the two comparisons exchanged
detect_movement_swapped(latest, previous) ==
    IF ~IntRaises(latest) /\ ~IntRaises(previous)
    THEN IF int(latest) > int(previous) THEN "Progressing"
         ELSE IF int(latest) < int(previous) THEN "Declining"
         ELSE "No Movement"
    ELSE IF str(previous) = "-" /\ str(latest) # "-" THEN "Newly Ranked"
         ELSE "No Movement"

detect_movement(latest, previous) ==
    IF ~IntRaises(latest) /\ ~IntRaises(previous)
    THEN IF int(latest) < int(previous) THEN "Progressing"
         ELSE IF int(latest) > int(previous) THEN "Declining"
         ELSE "No Movement"
    ELSE \* the except branch; latest is already an int when only
         \* int(previous) raised
         LET latest1 == IF IntRaises(latest) THEN latest
                        ELSE IntCell(int(latest))
         IN IF str(previous) = "-" /\ str(latest1) # "-" THEN "Newly Ranked"
            ELSE "No Movement"

---------------------------------------------------------------------------
(* Headers and dates *)

\* A header is text of some shape carrying a calendar day: one of the two
\* accepted shapes, or an ISO date, which matches neither.
Formats == <<"%m-%d-%Y", "%m/%d/%Y">>
Headers == [fmt : {Formats[1], Formats[2]}, day : Dates]
               \cup {[fmt |-> "%Y-%m-%d", day |-> 1]}

NaT == [ok |-> FALSE, day |-> 0]
notna(dt) == dt.ok

\* datetime.strptime(date_str, fmt) succeeds exactly on text of that shape
strptimeOk(date_str, fmt) == date_str.fmt = fmt

parse_flexible_date(date_str) ==
    IF strptimeOk(date_str, Formats[1]) THEN [ok |-> TRUE, day |-> date_str.day]
    ELSE IF strptimeOk(date_str, Formats[2]) THEN [ok |-> TRUE, day |-> date_str.day]
    ELSE NaT

parsed_dates(cols) == [i \in 1..Len(cols) |-> parse_flexible_date(cols[i])]

days_map == [p \in {"Last 7 days", "Last 15 days", "Last 30 days",
                    "Last 90 days", "Last 180 days"} |->
             CASE p = "Last 7 days" -> 7
               [] p = "Last 15 days" -> 15
               [] p = "Last 30 days" -> 30
               [] p = "Last 90 days" -> 90
               [] OTHER -> 180]

\* the columns whose header parses to a date inside [s, e], in table order
FilteredCols(cols, s, e) ==
    LET pd == parsed_dates(cols)
        InRange(i) == notna(pd[i]) /\ s <= pd[i].day /\ pd[i].day <= e
    IN SelectSeq([i \in 1..Len(cols) |-> i], InRange)

\* the first column, in table order, whose date is the comparison date;
\* 0 when there is none
ComparisonCol(cols, c) ==
    LET pd == parsed_dates(cols)
        hits == {i \in 1..Len(cols) : notna(pd[i]) /\ pd[i].day = c}
    IN IF hits = {} THEN 0
       ELSE CHOOSE i \in hits : \A j \in hits : i <= j

---------------------------------------------------------------------------
(* Tables *)

Keywords == {"kw1", "kw2"}

\* The rows of a table over n columns.  The first keyword's row ranges over
\* all cell sequences; the second keyword's row is the first read backwards,
\* so that tables with one keyword inside the buckets and one outside occur
\* without squaring the number of tables.
Mirror(row) == [i \in 1..Len(row) |-> row[Len(row) + 1 - i]]
Rows(n) ==
    {[k \in Keywords |-> IF k = "kw1" THEN row ELSE Mirror(row)] :
        row \in [1..n -> TableCells]}

\* pandas keeps column names distinct
Distinct(cols) == \A i, j \in 1..Len(cols) : i # j => cols[i] # cols[j]

ColumnSeqs == UNION {{cols \in [1..n -> Headers] : Distinct(cols)} : n \in 1..MaxCols}

Unset == << >>

---------------------------------------------------------------------------
(* One run of the script *)

RunInit ==
    /\ columns \in ColumnSeqs
    /\ rank_data \in Rows(Len(columns))
    /\ pc = "range"
    /\ status = "running"
    /\ start_date = 0
    /\ end_date = 0
    /\ comparison_date = 0
    /\ filtered_cols = << >>
    /\ latest_rank = Unset
    /\ previous_rank = Unset
    /\ bucket = Unset
    /\ df_filtered = Keywords
    /\ keyword_selected = None
    /\ movement = Unset

RunIdle ==
    /\ columns = << >>
    /\ rank_data = Unset
    /\ pc = "off"
    /\ status = "running"
    /\ start_date = 0
    /\ end_date = 0
    /\ comparison_date = 0
    /\ filtered_cols = << >>
    /\ latest_rank = Unset
    /\ previous_rank = Unset
    /\ bucket = Unset
    /\ df_filtered = {}
    /\ keyword_selected = None
    /\ movement = Unset

\* st.stop() after a message
Stop(msg) ==
    /\ pc' = "stopped"
    /\ status' = msg

\* "Preset Range": the range ends today and starts days earlier
PresetRange(preset_range, today) ==
    /\ pc = "range"
    /\ end_date' = today
    /\ start_date' = today - days_map[preset_range]
    /\ pc' = "filter"
    /\ UNCHANGED <<columns, rank_data, status, comparison_date, filtered_cols,
                   latest_rank, previous_rank, bucket, df_filtered,
                   keyword_selected, movement>>

\* "Custom Range": both ends come from date inputs
CustomRange(s, e) ==
    /\ pc = "range"
    /\ start_date' = s
    /\ end_date' = e
    /\ IF s > e THEN Stop("Start date must be before end date.")
       ELSE pc' = "filter" /\ UNCHANGED status
    /\ UNCHANGED <<columns, rank_data, comparison_date, filtered_cols,
                   latest_rank, previous_rank, bucket, df_filtered,
                   keyword_selected, movement>>

\* the comparison date is read, the columns are filtered, and the last
\* column of the filtered list becomes Latest Rank
FilterColumns(c) ==
    /\ pc = "filter"
    /\ comparison_date' = c
    /\ LET fc == FilteredCols(columns, start_date, end_date) IN
       /\ filtered_cols' = fc
       /\ IF Len(fc) < 2
          THEN /\ Stop("Not enough date columns in selected range")
               /\ UNCHANGED latest_rank
          ELSE /\ latest_rank' = [k \in Keywords |-> rank_data[k][fc[Len(fc)]]]
               /\ pc' = "comparison"
               /\ UNCHANGED status
    /\ UNCHANGED <<columns, rank_data, start_date, end_date, previous_rank,
                   bucket, df_filtered, keyword_selected, movement>>

\* the first column whose date equals the comparison date becomes
\* Previous Rank
FindComparison ==
    /\ pc = "comparison"
    /\ LET comparison_col == ComparisonCol(columns, comparison_date) IN
       IF comparison_col = 0
       THEN /\ Stop("Comparison date not found in data.")
            /\ UNCHANGED previous_rank
       ELSE /\ previous_rank' = [k \in Keywords |-> rank_data[k][comparison_col]]
            /\ pc' = "bucket"
            /\ UNCHANGED status
    /\ UNCHANGED <<columns, rank_data, start_date, end_date, comparison_date,
                   filtered_cols, latest_rank, bucket, df_filtered,
                   keyword_selected, movement>>

\* ClassifyBuckets without the notna filter
ClassifyBuckets_keep_all ==
    /\ pc = "bucket"
    /\ bucket' = [k \in Keywords |-> classify_bucket(latest_rank[k])]
    /\ df_filtered' = Keywords
    /\ pc' = "trend"
    /\ UNCHANGED <<columns, rank_data, status, start_date, end_date,
                   comparison_date, filtered_cols, latest_rank, previous_rank,
                   keyword_selected, movement>>

\* Bucket column, then only the rows with a bucket are kept
ClassifyBuckets ==
    /\ pc = "bucket"
    /\ bucket' = [k \in Keywords |-> classify_bucket(latest_rank[k])]
    /\ df_filtered' = {k \in Keywords : classify_bucket(latest_rank[k]) # None}
    /\ pc' = "trend"
    /\ UNCHANGED <<columns, rank_data, status, start_date, end_date,
                   comparison_date, filtered_cols, latest_rank, previous_rank,
                   keyword_selected, movement>>

\* the trend chart of one kept keyword; with no keyword kept the frame has
\* one column where two names are assigned, and the run ends in the handler
KeywordTrend ==
    /\ pc = "trend"
    /\ IF df_filtered = {}
       THEN /\ Stop("Error loading Google Sheet")
            /\ UNCHANGED keyword_selected
       ELSE /\ keyword_selected' \in df_filtered
            /\ pc' = "movement"
            /\ UNCHANGED status
    /\ UNCHANGED <<columns, rank_data, start_date, end_date, comparison_date,
                   filtered_cols, latest_rank, previous_rank, bucket,
                   df_filtered, movement>>

\* Movement column over the kept rows
DetectMovements ==
    /\ pc = "movement"
    /\ movement' = [k \in df_filtered |->
                      detect_movement(latest_rank[k], previous_rank[k])]
    /\ pc' = "done"
    /\ status' = "ok"
    /\ UNCHANGED <<columns, rank_data, start_date, end_date, comparison_date,
                   filtered_cols, latest_rank, previous_rank, bucket,
                   df_filtered, keyword_selected>>

---------------------------------------------------------------------------
(* The classifiers on drawn cells *)

FnInit ==
    /\ fn_pc = "drawn"
    /\ fn_latest \in FnCells
    /\ fn_previous \in FnCells
    /\ fn_bucket = "unset"
    /\ fn_movement = "unset"

FnIdle ==
    /\ fn_pc = "off"
    /\ fn_latest = NaNCell
    /\ fn_previous = NaNCell
    /\ fn_bucket = "unset"
    /\ fn_movement = "unset"

ApplyClassifyBucket ==
    /\ fn_pc \in {"drawn", "moved"}
    /\ fn_bucket = "unset"
    /\ fn_bucket' = classify_bucket(fn_latest)
    /\ fn_pc' = "bucketed"
    /\ UNCHANGED <<fn_latest, fn_previous, fn_movement>>

ApplyDetectMovement ==
    /\ fn_pc \in {"drawn", "bucketed"}
    /\ fn_movement = "unset"
    /\ fn_movement' = detect_movement(fn_latest, fn_previous)
    /\ fn_pc' = "moved"
    /\ UNCHANGED <<fn_latest, fn_previous, fn_bucket>>

---------------------------------------------------------------------------
(* Specifications *)

Init == RunInit /\ FnIdle

Next ==
    \/ \E p \in DOMAIN days_map, today \in Dates :
          PresetRange(p, today) /\ UNCHANGED fnVars
    \/ \E s, e \in Dates : CustomRange(s, e) /\ UNCHANGED fnVars
    \/ \E c \in Dates : FilterColumns(c) /\ UNCHANGED fnVars
    \/ FindComparison /\ UNCHANGED fnVars
    \/ ClassifyBuckets /\ UNCHANGED fnVars
    \/ KeywordTrend /\ UNCHANGED fnVars
    \/ DetectMovements /\ UNCHANGED fnVars

Spec == Init /\ [][Next]_vars

InitFn == RunIdle /\ FnInit

NextFn ==
    \/ ApplyClassifyBucket /\ UNCHANGED runVars
    \/ ApplyDetectMovement /\ UNCHANGED runVars

SpecFn == InitFn /\ [][NextFn]_vars

---------------------------------------------------------------------------
(* Notions of the specification used to state the claims *)

Present(c) == c.kind = "int"
Absent(c) == c.kind # "int"

\* the calendar days of the table inside the selected range
InRangeDays ==
    {parse_flexible_date(columns[i]).day : i \in
        {j \in 1..Len(columns) : /\ notna(parse_flexible_date(columns[j]))
                                 /\ start_date <= parse_flexible_date(columns[j]).day
                                 /\ parse_flexible_date(columns[j]).day <= end_date}}

\* the columns of the table whose header is the day d
ColsOfDay(d) ==
    {i \in 1..Len(columns) : /\ notna(parse_flexible_date(columns[i]))
                             /\ parse_flexible_date(columns[i]).day = d}

MaxOf(S) == CHOOSE x \in S : \A y \in S : y <= x
MinOf(S) == CHOOSE x \in S : \A y \in S : x <= y

\* the merged rank of keyword k on day d: the least numeric cell of the
\* day's columns, or an empty cell when none is numeric
MergedRank(k, d) ==
    LET nums == {rank_data[k][i].val : i \in {j \in ColsOfDay(d) : Present(rank_data[k][j])}}
    IN IF nums = {} THEN NaNCell ELSE IntCell(MinOf(nums))

\* two cells hold the same rank: the same number, or both none
SameRank(a, b) ==
    IF Present(a) /\ Present(b) THEN a.val = b.val
    ELSE Absent(a) /\ Absent(b)

\* the column Latest Rank was read from, and its day
LatestCol == filtered_cols[Len(filtered_cols)]
LatestDay == parse_flexible_date(columns[LatestCol]).day

---------------------------------------------------------------------------
(* Claims *)

\* C1: for every positive integer rank r the bucket is Top 3 iff r <= 3,
\* Top 5 iff 3 < r <= 5, Top 10 iff 5 < r <= 10 and none otherwise; an
\* absent rank cell (empty, "-", other text) always has no bucket.
C1_BucketBoundaries ==
    fn_bucket # "unset" =>
        /\ (Present(fn_latest) /\ fn_latest.val >= 1) =>
              /\ fn_bucket = "Top 3" <=> fn_latest.val <= 3
              /\ fn_bucket = "Top 5" <=> (3 < fn_latest.val /\ fn_latest.val <= 5)
              /\ fn_bucket = "Top 10" <=> (5 < fn_latest.val /\ fn_latest.val <= 10)
              /\ fn_bucket = None <=> fn_latest.val > 10
        /\ fn_latest \in AbsentCells => fn_bucket = None

C1_Witness ==
    /\ fn_bucket = "Top 3"
    /\ fn_latest = IntCell(3)

\* C2: a rank cell holding zero or a negative integer is treated as
\* absent: its bucket is none.
C2_NonPositiveUnclassified ==
    (fn_bucket # "unset" /\ Present(fn_latest) /\ fn_latest.val <= 0)
        => fn_bucket = None

\* C3: with both ranks present the movement is Progressing iff
\* latest < previous, Declining iff latest > previous, No Movement iff they
\* are equal, and never Newly Ranked.
C3_MovementBothPresent ==
    (fn_movement # "unset" /\ Present(fn_latest) /\ Present(fn_previous)) =>
        /\ fn_movement = "Progressing" <=> fn_latest.val < fn_previous.val
        /\ fn_movement = "Declining" <=> fn_latest.val > fn_previous.val
        /\ fn_movement = "No Movement" <=> fn_latest.val = fn_previous.val
        /\ fn_movement # "Newly Ranked"

C3_Witness ==
    /\ fn_movement = "Progressing"
    /\ fn_latest = IntCell(4)
    /\ fn_previous = IntCell(7)

\* C4: a previous rank absent in any form (empty, "-", other text) with a
\* present latest rank gives Newly Ranked.
C4_NewlyRanked ==
    (fn_movement # "unset" /\ Absent(fn_previous) /\ Present(fn_latest))
        => fn_movement = "Newly Ranked"

C6_LatestByCalendar ==
    latest_rank # Unset => LatestDay = MaxOf(InRangeDays)

\* C7: when several columns carry the same date, every rank read for that
\* date, as Latest Rank or as Previous Rank, is per keyword the least
\* numeric cell of those columns, whichever column comes first.
C7_DuplicatesMerged ==
    /\ (latest_rank # Unset /\ Cardinality(ColsOfDay(LatestDay)) >= 2) =>
          \A k \in Keywords : SameRank(latest_rank[k], MergedRank(k, LatestDay))
    /\ (previous_rank # Unset /\ Cardinality(ColsOfDay(comparison_date)) >= 2) =>
          \A k \in Keywords :
              SameRank(previous_rank[k], MergedRank(k, comparison_date))

\* C8: a range holding fewer than 2 distinct dates ends the run with the
\* not-enough-data warning and no movement label; movement is computed only
\* with at least 2 distinct dates in the range.
C8_InsufficientOnDistinctDates ==
    /\ (pc \notin {"range", "filter"} /\ status # "Start date must be before end date."
          /\ Cardinality(InRangeDays) < 2) =>
              /\ pc = "stopped"
              /\ status = "Not enough date columns in selected range"
    /\ movement # Unset => Cardinality(InRangeDays) >= 2

\* C9: when the run stops because the comparison date is missing or the
\* range holds fewer than 2 dates, and the range holds at least one date,
\* the buckets of the latest date have still been computed.
C9_BucketsDespiteMovementFailure ==
    (/\ pc = "stopped"
     /\ status \in {"Not enough date columns in selected range",
                    "Comparison date not found in data."}
     /\ InRangeDays # {}) => bucket # Unset

\* C10: every keyword given a movement label has a latest rank that is an
\* integer <= 10; a keyword whose latest rank is above 10 or absent gets
\* no movement label.
C10_MovementOnlyForBucketed ==
    movement # Unset =>
        \A k \in Keywords :
            k \in DOMAIN movement <=>
                (Present(rank_data[k][LatestCol]) /\ rank_data[k][LatestCol].val <= 10)

\* a run that labels kw2 and gives no label to kw1, which fell from 7 to 11
C10_Witness ==
    /\ pc = "done"
    /\ "kw1" \notin DOMAIN movement
    /\ rank_data["kw1"][LatestCol] = IntCell(11)
    /\ previous_rank["kw1"] = IntCell(7)
    /\ "kw2" \in DOMAIN movement
    /\ movement["kw2"] = "Progressing"

=============================================================================
